---- MODULE Spec2Model ----
(***************************************************************************)
(* Model of astora's magnetics field engine (astora/diagnostics/magnetics  *)
(* and astora/mesh/basis.py).                                              *)
(*                                                                         *)
(* Numbers.  Lengths are integers in grid units of eps (1e-4 m), so that   *)
(* R +/- eps and z +/- eps are exact.  Field values are extended rationals *)
(* <<n, d>> in lowest terms with d >= 0: d = 0 stands for the IEEE values  *)
(* the code can produce from a pole (<<1,0>> = +inf, <<-1,0>> = -inf,      *)
(* <<0,0>> = nan).  Sums, products and quotients are exact; floating-point *)
(* rounding is not modelled.                                               *)
(***************************************************************************)
EXTENDS Integers, Sequences, FiniteSets, TLC

VARIABLES obj, call
vars == <<obj, call>>

(* ------------------------------------------------------------------ *)
(* Bounds of the model                                                 *)
(* ------------------------------------------------------------------ *)
MaxGR == 4
MaxGZ == 2
MaxFil == 2
MaxR == 2
MaxZ == 1
MaxCur == 2
MaxPts == 1
MaxMembers == 2
WDen == 3
MaxRes == 2
MaxCtorR == 1
MaxCtorLen == 2
MaxLevel == 1
GridMax == MaxGR + MaxR + MaxZ + MaxRes

(* ------------------------------------------------------------------ *)
(* Exact arithmetic                                                    *)
(* ------------------------------------------------------------------ *)
Abs(x) == IF x < 0 THEN -x ELSE x

Sign(x) == IF x < 0 THEN -1 ELSE IF x > 0 THEN 1 ELSE 0

RECURSIVE Gcd(_, _)
Gcd(a, b) == IF b = 0 THEN a ELSE Gcd(b, a % b)

Rat(n, d) ==
    IF d = 0 THEN <<Sign(n), 0>>
    ELSE LET g == Gcd(Abs(n), Abs(d))
             s == Sign(d)
         IN  <<(s * n) \div g, (s * d) \div g>>

Zero == <<0, 1>>
RatInt(i) == <<i, 1>>
IsFinite(x) == x[2] # 0
RatAdd(x, y) ==
    IF x[2] = 0 /\ y[2] = 0
    THEN (IF x[1] = y[1] THEN x ELSE <<0, 0>>)
    ELSE Rat(x[1] * y[2] + y[1] * x[2], x[2] * y[2])
RatNeg(x) == <<-x[1], x[2]>>
RatSub(x, y) == RatAdd(x, RatNeg(y))
RatMul(x, y) == Rat(x[1] * y[1], x[2] * y[2])
RatDiv(x, y) == Rat(x[1] * y[2], x[2] * y[1])

RECURSIVE ISqrtIn(_, _, _)
ISqrtIn(x, lo, hi) ==
    IF lo >= hi THEN lo
    ELSE LET mid == (lo + hi + 1) \div 2
         IN  IF mid * mid <= x THEN ISqrtIn(x, mid, hi) ELSE ISqrtIn(x, lo, mid - 1)

\* floor of the square root of a natural number below 2^30
ISqrt(x) == ISqrtIn(x, 0, 32767)

Range(s) == {s[i] : i \in DOMAIN s}

RECURSIVE SumSeq(_)
SumSeq(s) == IF s = <<>> THEN 0 ELSE Head(s) + SumSeq(Tail(s))

RECURSIVE RatSum(_)
RatSum(s) == IF s = <<>> THEN Zero ELSE RatAdd(Head(s), RatSum(Tail(s)))

SeqsUpTo(S, lo, hi) == UNION {[1..n -> S] : n \in lo..hi}

(* ------------------------------------------------------------------ *)
(* fields.py: the single-filament Green's function                     *)
(* ------------------------------------------------------------------ *)
\* eps = 1e-4 is the grid unit
Eps == 1

\* 1e-10 = 1 / (ClipScale * ClipScale)
ClipScale == 100000

\* coeff = 2e-7, in units of 1e-7
Coeff == 2

\* a * 1e10 < b for a >= 0 and b >= 1, without leaving 32 bits
BelowClipEps(a, b) == a < 20000 /\ a * ClipScale <= (b - 1) \div ClipScale

\* x < 1e-10 and x > 1 - 1e-10, for a finite rational x
LtClipLo(x) == x[1] <= 0 \/ BelowClipEps(x[1], x[2])
GtClipHi(x) == x[2] - x[1] <= 0 \/ BelowClipEps(x[2] - x[1], x[2])

\* L = 0.25 * ((R + R0)**2 + (z - z0)**2)
L_of(R0, z0, R, z) == Rat((R + R0) * (R + R0) + (z - z0) * (z - z0), 4)

k2_raw_swapped(R0, z0, R, z) == RatDiv(RatInt(R * R), L_of(R0, z0, R, z))

\* k2 = R * R0 / L
k2_raw(R0, z0, R, z) == RatDiv(RatInt(R * R0), L_of(R0, z0, R, z))

clip_lower_only(x) ==
    IF x[2] = 0 THEN [at |-> "in", v |-> x]
    ELSE IF LtClipLo(x) THEN [at |-> "lo", v |-> x]
    ELSE [at |-> "in", v |-> x]

\* clip(k2, 1e-10, 1.0 - 1e-10): "lo" and "hi" are the two clamp values, "in" a
\* value passed through unchanged (nan passes through numpy's clip)
clip(x) ==
    IF x[2] = 0 /\ x[1] = 0 THEN [at |-> "in", v |-> x]
    ELSE IF x[2] = 0 THEN [at |-> (IF x[1] > 0 THEN "hi" ELSE "lo"), v |-> x]
    ELSE IF LtClipLo(x) THEN [at |-> "lo", v |-> x]
    ELSE IF GtClipHi(x) THEN [at |-> "hi", v |-> x]
    ELSE [at |-> "in", v |-> x]

k2_of(R0, z0, R, z) == clip(k2_raw(R0, z0, R, z))

\* scipy.special.ellipk(m), in hundredths: its Maclaurin polynomial
\* pi/2 * (1 + m/4 + 9 m^2/64) inside the unit interval, K(1 - 1e-10) = 12.90
\* at the upper clamp value, the pole at m = 1 and nan beyond it
ellipk(k2) ==
    IF k2.at = "hi" THEN RatInt(1290)
    ELSE IF k2.at = "lo" THEN RatInt(157)
    ELSE LET n == k2.v[1]
             d == k2.v[2]
         IN  IF d = 0 THEN <<0, 0>>
             ELSE IF n = d THEN <<1, 0>>
             ELSE IF n > d THEN <<0, 0>>
             ELSE RatInt(157 + (157 * n) \div (4 * d) + (1413 * n * n) \div (64 * d * d))

\* scipy.special.ellipe(m), in hundredths: pi/2 * (1 - m/4 - 3 m^2/64),
\* E(1) = 1, nan beyond 1
ellipe(k2) ==
    IF k2.at = "hi" THEN RatInt(100)
    ELSE IF k2.at = "lo" THEN RatInt(157)
    ELSE LET n == k2.v[1]
             d == k2.v[2]
         IN  IF d = 0 THEN <<0, 0>>
             ELSE IF n = d THEN RatInt(100)
             ELSE IF n > d THEN <<0, 0>>
             ELSE RatInt(157 - (157 * n) \div (4 * d) - (471 * n * n) \div (64 * d * d))

\* numpy.sqrt(L), in hundredths of a grid unit, rounded down
sqrt(L) == IF L[2] = 0 \/ L[1] < 0 THEN <<0, 0>> ELSE RatInt(ISqrt((10000 * L[1]) \div L[2]))

\* a finite value rounded down to the fixed-point grid
Fix(x) == IF x[2] = 0 THEN x ELSE RatInt(x[1] \div x[2])

\* the value 2.0 - k2 at a clipped k2
TwoMinus(k2) ==
    IF k2.at = "hi" THEN RatInt(1)
    ELSE IF k2.at = "lo" THEN RatInt(2)
    ELSE RatSub(RatInt(2), k2.v)

\* coeff * sqrt(L) * ((2.0 - k2) * ellipk(k2) - 2.0 * ellipe(k2))
psi_value(R0, z0, R, z) ==
    LET L  == L_of(R0, z0, R, z)
        k2 == k2_of(R0, z0, R, z)
    IN  RatMul(RatMul(RatInt(Coeff), sqrt(L)),
               Fix(RatSub(RatMul(TwoMinus(k2), ellipk(k2)),
                          RatMul(RatInt(2), ellipe(k2)))))

\* psi_value over the grid the model evaluates it on, computed once
PsiOnGrid ==
    [a \in (0..GridMax) \X ((-GridMax)..GridMax) \X ((-1)..GridMax) \X ((-1)..GridMax) |->
        psi_value(a[1], a[2] , a[3], a[4])]

psi_from_Jtor(R0, z0, R, z) == PsiOnGrid[<<R0, z0, R, z>>]

Br_from_Jtor(R0, z0, R, z, eps) ==
    LET f1 == psi_from_Jtor(R0, z0, R, z - eps)
        f2 == psi_from_Jtor(R0, z0, R, z + eps)
    IN  RatDiv(RatSub(f1, f2), RatInt(2 * eps * R))

Bz_from_Jtor(R0, z0, R, z, eps) ==
    LET f1 == psi_from_Jtor(R0, z0, R - eps, z)
        f2 == psi_from_Jtor(R0, z0, R + eps, z)
    IN  RatDiv(RatSub(f2, f1), RatInt(2 * eps * R))

NoObj == [kind |-> "none"]

(* ------------------------------------------------------------------ *)
(* numpy values: a 0-d value (dim 0, v a number) or a 1-d array (dim 1, *)
(* v a sequence); a 0-d operand broadcasts against a 1-d one            *)
(* ------------------------------------------------------------------ *)
Scal(x) == [dim |-> 0, v |-> x]
Arr(s) == [dim |-> 1, v |-> s]
At(a, p) == IF a.dim = 0 THEN a.v ELSE a.v[p]

Lift2(F(_, _), a, b) ==
    IF a.dim = 0 /\ b.dim = 0 THEN Scal(F(a.v, b.v))
    ELSE LET n == IF a.dim = 1 THEN Len(a.v) ELSE Len(b.v)
         IN  Arr([p \in 1..n |-> F(At(a, p), At(b, p))])

ArrAdd(a, b) == Lift2(RatAdd, a, b)
ArrSub(a, b) == Lift2(RatSub, a, b)
ArrDiv(a, b) == Lift2(RatDiv, a, b)

\* an integer array times an integer, as a numpy array of numbers
IntArr(s, k) == Arr([p \in DOMAIN s |-> RatInt(k * s[p])])

\* s + d for an integer array s and a number d: a new array
Shift(s, d) == [i \in DOMAIN s |-> s[i] + d]

Min(a, b) == IF a <= b THEN a ELSE b

\* Python's sum(...) of the values f[1], ..., f[n]: starts from the integer 0
RECURSIVE PySum(_, _)
PySum(f, n) == IF n = 0 THEN Scal(Zero) ELSE ArrAdd(PySum(f, n - 1), f[n])

(* ------------------------------------------------------------------ *)
(* coils.py: PoloidalFieldCoil                                         *)
(* ------------------------------------------------------------------ *)
\* isclose(weights.sum(), 1.0) for weights.sum() = sum / den, den <= 2000000:
\* |sum/den - 1| <= atol + rtol * 1 with numpy's defaults atol = 1e-8, rtol = 1e-5,
\* that is |sum - den| * 1e8 <= 1001 * den
IsCloseTol == 1001
IsCloseScale == 100000000

isclose_to_one(sum, den) ==
    /\ Abs(sum - den) <= 21
    /\ Abs(sum - den) * IsCloseScale <= IsCloseTol * den

all_nonnegative(data) == \A i \in DOMAIN data : data[i] >= 0

\* (R_filaments > 0.).all()
all_positive(data) == \A i \in DOMAIN data : data[i] > 0

\* The outcome of PoloidalFieldCoil(R_filaments, z_filaments, weights): the arrays
\* are [ndim, data] (size = Len(data)); weights is [none |-> TRUE] or an array whose
\* values are data[i] / den.  The checks run in the order of the source.
PoloidalFieldCoil(R_filaments, z_filaments, weights) ==
    LET size == Len(R_filaments.data)
        fail(e) == [ok |-> FALSE, err |-> e, obj |-> NoObj]
        made(w) == [ok |-> TRUE, err |-> "",
                    obj |-> [kind |-> "coil",
                             R_fil |-> R_filaments.data,
                             z_fil |-> z_filaments.data,
                             weights |-> w,
                             n_filaments |-> size]]
    IN  IF size # Len(z_filaments.data) THEN fail("AssertionError")
        ELSE IF ~(R_filaments.ndim = 1 /\ z_filaments.ndim = 1) THEN fail("AssertionError")
        ELSE IF ~all_positive(R_filaments.data) THEN fail("AssertionError")
        ELSE IF ~weights.none
        THEN IF ~isclose_to_one(SumSeq(weights.data), weights.den) THEN fail("AssertionError")
             ELSE IF weights.ndim # 1 THEN fail("AssertionError")
             ELSE IF Len(weights.data) # size THEN fail("AssertionError")
             ELSE made([scalar |-> FALSE, num |-> weights.data, den |-> weights.den])
        ELSE IF size = 0 THEN fail("ZeroDivisionError")
        ELSE made([scalar |-> TRUE, num |-> <<1>>, den |-> size])

WeightAt_uniform(self, i) == Rat(1, self.n_filaments)

\* self.weights broadcast against the filament axis
WeightAt(self, i) ==
    IF self.weights.scalar THEN Rat(1, self.weights.den)
    ELSE Rat(self.weights.num[i], self.weights.den)

\* one row of (self.weights * psi_from_Jtor(...)).sum(axis=1)
RECURSIVE WeightedRow(_, _, _, _)
WeightedRow(self, R, z, n) ==
    IF n = 0 THEN Zero
    ELSE RatAdd(WeightedRow(self, R, z, n - 1),
                RatMul(WeightAt(self, n),
                       psi_from_Jtor(self.R_fil[n], self.z_fil[n], R, z)))

Coil_psi_prediction(self, current, R, z) ==
    Arr([p \in DOMAIN R |->
            RatMul(WeightedRow(self, R[p], z[p], Len(self.R_fil)), RatInt(current))])

(* ------------------------------------------------------------------ *)
(* coils.py: CoilCircuit                                               *)
(* ------------------------------------------------------------------ *)
CoilCircuit(coils, multipliers) ==
    [kind |-> "circuit", coils |-> coils, multipliers |-> multipliers]

Circuit_psi_prediction_unscaled(self, current, R, z) ==
    LET n == Min(Len(self.coils), Len(self.multipliers))
    IN  PySum([i \in 1..n |-> Coil_psi_prediction(self.coils[i], current, R, z)], n)

\* sum(c.psi_prediction(current * m, R, z) for c, m in zip(self.coils, self.multipliers))
Circuit_psi_prediction(self, current, R, z) ==
    LET n == Min(Len(self.coils), Len(self.multipliers))
    IN  PySum([i \in 1..n |->
                  Coil_psi_prediction(self.coils[i], current * self.multipliers[i], R, z)],
              n)

(* ------------------------------------------------------------------ *)
(* coils.py: BaseFieldCoil                                             *)
(* ------------------------------------------------------------------ *)
\* the method the object's class binds to psi_prediction
psi_prediction(self, current, R, z) ==
    IF self.kind = "coil" THEN Coil_psi_prediction(self, current, R, z)
    ELSE Circuit_psi_prediction(self, current, R, z)

Br_prediction_unsigned(self, current, R, z, eps) ==
    LET f1 == psi_prediction(self, current, R, Shift(z, -eps))
        f2 == psi_prediction(self, current, R, Shift(z, eps))
    IN  ArrDiv(ArrSub(f2, f1), IntArr(R, 2 * eps))

Br_prediction(self, current, R, z, eps) ==
    LET f1 == psi_prediction(self, current, R, Shift(z, -eps))
        f2 == psi_prediction(self, current, R, Shift(z, eps))
    IN  ArrDiv(ArrSub(f1, f2), IntArr(R, 2 * eps))

Bz_prediction(self, current, R, z, eps) ==
    LET f1 == psi_prediction(self, current, Shift(R, -eps), z)
        f2 == psi_prediction(self, current, Shift(R, eps), z)
    IN  ArrDiv(ArrSub(f2, f1), IntArr(R, 2 * eps))

(* ------------------------------------------------------------------ *)
(* coils.py: CoilSet                                                   *)
(* ------------------------------------------------------------------ *)
CoilSet(coils) == [kind |-> "set", coils |-> coils, n_coils |-> Len(coils)]

CoilSet_psi(self, currents, R, z) ==
    LET n == Min(Len(self.coils), Len(currents))
    IN  PySum([i \in 1..n |-> psi_prediction(self.coils[i], currents[i], R, z)], n)

CoilSet_Bz(self, currents, R, z) ==
    LET n == Min(Len(self.coils), Len(currents))
    IN  PySum([i \in 1..n |-> Bz_prediction(self.coils[i], currents[i], R, z, Eps)], n)

CoilSet_Br(self, currents, R, z) ==
    LET n == Min(Len(self.coils), Len(currents))
    IN  PySum([i \in 1..n |-> Br_prediction(self.coils[i], currents[i], R, z, Eps)], n)

get_psi_matrix_reversed(self, R, z) ==
    [p \in DOMAIN R |->
        [i \in 1..self.n_coils |->
            At(psi_prediction(self.coils[self.n_coils + 1 - i], 1, R, z), p)]]

\* M[p][i]: row p is a query point, column i a member
get_psi_matrix(self, R, z) ==
    [p \in DOMAIN R |->
        [i \in 1..self.n_coils |-> At(psi_prediction(self.coils[i], 1, R, z), p)]]

get_Br_matrix(self, R, z) ==
    [p \in DOMAIN R |->
        [i \in 1..self.n_coils |-> At(Br_prediction(self.coils[i], 1, R, z, Eps), p)]]

get_Bz_matrix(self, R, z) ==
    [p \in DOMAIN R |->
        [i \in 1..self.n_coils |-> At(Bz_prediction(self.coils[i], 1, R, z, Eps), p)]]

(* ------------------------------------------------------------------ *)
(* basis.py: HexaconeBasis                                             *)
(* ------------------------------------------------------------------ *)
\* A mesh point is <<X, Y>> with R = a * X / D and z = Y / (2 * D), where
\* a = 0.5 * sqrt(3) and D = 3 * 2^level, so that the hexagon's vertices, every
\* edge midpoint and every centroid of the refined mesh have integer X and Y.
RECURSIVE Pow(_, _)
Pow(b, n) == IF n = 0 THEN 1 ELSE b * Pow(b, n - 1)

MeshScale(level) == 3 * Pow(2, level)

\* points = [(0, 0), (0, 1), (a, 0.5), (a, -0.5), (0, -1), (-a, -0.5), (-a, 0.5)]
HexPoints(D) ==
    << <<0, 0>>, <<0, 2 * D>>, <<D, D>>, <<D, -D>>, <<0, -2 * D>>, <<-D, -D>>, <<-D, D>> >>

\* triangles = [[0, i, i % 6 + 1] for i in range(1, 7)], as 1-based vertex indices
HexTriangles == [i \in 1..6 |-> <<1, i + 1, (i % 6) + 2>>]

Midpoint(p, q) == <<(p[1] + q[1]) \div 2, (p[2] + q[2]) \div 2>>

\* tokamesh's refine_mesh with every refinement flag set: each triangle, given by its
\* three corner points, is replaced by the four triangles its edge midpoints cut
refine_mesh(tris) ==
    [k \in 1..(4 * Len(tris)) |->
        LET t  == tris[((k - 1) \div 4) + 1]
            ab == Midpoint(t[1], t[2])
            bc == Midpoint(t[2], t[3])
            ca == Midpoint(t[3], t[1])
            j  == (k - 1) % 4
        IN  IF j = 0 THEN <<t[1], ab, ca>>
            ELSE IF j = 1 THEN <<ab, t[2], bc>>
            ELSE IF j = 2 THEN <<ca, bc, t[3]>>
            ELSE <<ab, bc, ca>>]

RECURSIVE Refined(_, _)
Refined(tris, n) == IF n = 0 THEN tris ELSE Refined(refine_mesh(tris), n - 1)

\* R[triangles].mean(axis=1), z[triangles].mean(axis=1)
Centroid(t) == <<(t[1][1] + t[2][1] + t[3][1]) \div 3, (t[1][2] + t[2][2] + t[3][2]) \div 3>>

Cross(p, q) == p[1] * q[2] - p[2] * q[1]

\* the barycentric coordinates of point c in the triangle with corners 0, p and q
Barycentric(c, p, q) ==
    LET lp == Rat(Cross(c, q), Cross(p, q))
        lq == Rat(Cross(p, c), Cross(p, q))
    IN  <<RatSub(RatInt(1), RatAdd(lp, lq)), lp, lq>>

Inside(b) == \A i \in 1..3 : b[i][1] >= 0

\* tokamesh's build_interpolator_matrix on the unrefined hexagon mesh, one row: the
\* weight of each of the 7 mesh vertices at point c (zero off the triangle holding c)
InterpolatorRow(c, D) ==
    LET pts == HexPoints(D)
        t   == CHOOSE tr \in Range(HexTriangles) :
                   Inside(Barycentric(c, pts[tr[2]], pts[tr[3]]))
        b   == Barycentric(c, pts[t[2]], pts[t[3]])
    IN  [v \in 1..7 |-> IF v = t[1] THEN b[1]
                        ELSE IF v = t[2] THEN b[2]
                        ELSE IF v = t[3] THEN b[3]
                        ELSE Zero]

OtherColumn(row) == row[2]

\* build_interpolator_matrix(...)[:, 0]
CentreColumn(row) == row[1]

\* hexacone_basis_points: the centroids (as mesh points) and their weights
hexacone_basis_points(refinement_level) ==
    LET D    == MeshScale(refinement_level)
        pts  == HexPoints(D)
        tris == Refined([i \in 1..6 |-> <<pts[HexTriangles[i][1]], pts[HexTriangles[i][2]],
                                          pts[HexTriangles[i][3]]>>], refinement_level)
        cen  == [k \in DOMAIN tris |-> Centroid(tris[k])]
    IN  [centre |-> cen,
         weights |-> [k \in DOMAIN cen |-> CentreColumn(InterpolatorRow(cen[k], D))],
         area_sqrt3 |-> Rat(3, 2 * Len(cen))]

\* a * X / D * resolution and Y / (2 * D) * resolution, rounded down to the grid
\* (a = 0.866...)
ScaledR(X, D, resolution) == (866 * X * resolution) \div (1000 * D)
ScaledZ(Y, D, resolution) == (Y * resolution) \div (2 * D)

\* total_current is kept as the factor of sqrt(3): 0.5 * sqrt(3) * resolution**2
HexaconeBasis(resolution, refinement_level) ==
    LET D == MeshScale(refinement_level)
        h == hexacone_basis_points(refinement_level)
    IN  [kind |-> "basis",
         R_fil |-> [k \in DOMAIN h.centre |-> ScaledR(h.centre[k][1], D, resolution)],
         z_fil |-> [k \in DOMAIN h.centre |-> ScaledZ(h.centre[k][2], D, resolution)],
         weights |-> h.weights,
         n_filaments |-> Len(h.centre),
         total_current_sqrt3 |-> Rat(resolution * resolution, 2)]

RECURSIVE PsiRow(_, _, _, _, _)
PsiRow(R_fil, z_fil, R, z, n) ==
    IF n = 0 THEN Zero
    ELSE RatAdd(PsiRow(R_fil, z_fil, R, z, n - 1), psi_from_Jtor(R_fil[n], z_fil[n], R, z))

Basis_psi_prediction(self, R0, z0, R, z) ==
    LET Rf == Shift(self.R_fil, R0)
        zf == Shift(self.z_fil, z0)
    IN  Arr([p \in DOMAIN R |->
                RatDiv(PsiRow(Rf, zf, R[p], z[p], Len(Rf)), RatInt(self.n_filaments))])

Basis_Br_prediction(self, R0, z0, R, z, eps) ==
    LET f1 == Basis_psi_prediction(self, R0, z0, R, Shift(z, -eps))
        f2 == Basis_psi_prediction(self, R0, z0, R, Shift(z, eps))
    IN  ArrDiv(ArrSub(f1, f2), IntArr(R, 2 * eps))

Basis_Bz_prediction(self, R0, z0, R, z, eps) ==
    LET f1 == Basis_psi_prediction(self, R0, z0, Shift(R, -eps), z)
        f2 == Basis_psi_prediction(self, R0, z0, Shift(R, eps), z)
    IN  ArrDiv(ArrSub(f2, f1), IntArr(R, 2 * eps))

(* ------------------------------------------------------------------ *)
(* The client: it builds one object from bounded inputs, queries it,   *)
(* and repeats the query.  obj is the object it holds, call the last   *)
(* operation with the caller's argument arrays as they are afterwards  *)
(* ------------------------------------------------------------------ *)
Array(ndim, s) == [ndim |-> ndim, data |-> s]
Array1(s) == Array(1, s)
None == [none |-> TRUE]
Weights(ndim, s, den) == [none |-> FALSE, ndim |-> ndim, data |-> s, den |-> den]

FilR == 1..MaxR
FilZ == 0..MaxZ
Currents == (-1)..MaxCur
Multipliers == {-1} \cup (2..MaxCur)

\* explicit weight vectors of n entries that sum to exactly 1
ExactWeights(n) ==
    {Weights(1, w, WDen) : w \in {v \in [1..n -> 1..WDen] : SumSeq(v) = WDen}}

\* the coils and circuits the client puts into circuits and coil sets: the
\* single-filament coils in the plane z = 0, and the circuits of two different ones
\* with two different multipliers
MemberCoils == {PoloidalFieldCoil(Array1(<<r>>), Array1(<<0>>), None).obj : r \in FilR}

MemberCircuits ==
    {CoilCircuit(<<c[1], c[2]>>, <<m[1], m[2]>>) :
        c \in {x \in MemberCoils \X MemberCoils : x[1] # x[2]},
        m \in {y \in Multipliers \X Multipliers : y[1] # y[2]}}

\* a query that steps its z array in place (z -= eps) instead of building z - eps
Query_inplace(self, args, ret) ==
    [self |-> self, args |-> [args EXCEPT !.z = Shift(args.z, -Eps)], ret |-> ret]

\* what a query does to the object and to the caller's arrays, and what it returns:
\* no statement of the query methods assigns to a field of self or writes into an
\* argument array (z - eps, R + eps, self.R_fil + R0 are new arrays)
Query(self, args, ret) == [self |-> self, args |-> args, ret |-> ret]

PredictionOps == {"psi_prediction", "Br_prediction", "Bz_prediction"}
FieldOps == {"psi", "Br", "Bz"}
MatrixOps == {"get_psi_matrix", "get_Br_matrix", "get_Bz_matrix"}
QueryOps == PredictionOps \cup FieldOps \cup MatrixOps

\* the value a query returns; no statement on the way raises for the arguments of
\* the client (zip pairs members and currents up to the shorter of the two)
Eval(self, op, a) ==
    IF self.kind = "basis"
    THEN CASE op = "psi_prediction" -> Basis_psi_prediction(self, a.R0, a.z0, a.R, a.z)
           [] op = "Br_prediction" -> Basis_Br_prediction(self, a.R0, a.z0, a.R, a.z, Eps)
           [] op = "Bz_prediction" -> Basis_Bz_prediction(self, a.R0, a.z0, a.R, a.z, Eps)
    ELSE CASE op = "psi_prediction" -> psi_prediction(self, a.current, a.R, a.z)
           [] op = "Br_prediction" -> Br_prediction(self, a.current, a.R, a.z, Eps)
           [] op = "Bz_prediction" -> Bz_prediction(self, a.current, a.R, a.z, Eps)
           [] op = "psi" -> CoilSet_psi(self, a.currents, a.R, a.z)
           [] op = "Br" -> CoilSet_Br(self, a.currents, a.R, a.z)
           [] op = "Bz" -> CoilSet_Bz(self, a.currents, a.R, a.z)
           [] op = "get_psi_matrix" -> get_psi_matrix(self, a.R, a.z)
           [] op = "get_Br_matrix" -> get_Br_matrix(self, a.R, a.z)
           [] op = "get_Bz_matrix" -> get_Bz_matrix(self, a.R, a.z)

Constructors == {"PoloidalFieldCoil", "CoilCircuit", "CoilSet", "HexaconeBasis"}

Do(op, a) ==
    \E q \in {Query(obj, a, Eval(obj, op, a))} :
        /\ obj' = q.self
        /\ call' = [op |-> op, before |-> a, args |-> q.args, ret |-> q.ret,
                    raised |-> FALSE, nth |-> 1, first |-> q.ret]

Init == obj = NoObj /\ call = [op |-> "start"]

NewCoil ==
    /\ call.op = "start"
    /\ \E Rf \in SeqsUpTo(FilR, 1, MaxFil) :
         \E zf \in [1..Len(Rf) -> FilZ], w \in {None} \cup ExactWeights(Len(Rf)) :
            \E made \in {PoloidalFieldCoil(Array1(Rf), Array1(zf), w)} :
                /\ obj' = made.obj
                /\ call' = [op |-> "PoloidalFieldCoil", ok |-> made.ok]

\* CoilCircuit(coils, multipliers): the two lists need not be equally long
NewCircuit ==
    /\ call.op = "start"
    /\ \E cs \in SeqsUpTo(MemberCoils, 0, MaxMembers),
          ms \in SeqsUpTo(Multipliers, 0, MaxMembers) :
            /\ obj' = CoilCircuit(cs, ms)
            /\ call' = [op |-> "CoilCircuit", ok |-> TRUE]

NewCoilSet ==
    /\ call.op = "start"
    /\ \E cs \in SeqsUpTo(MemberCoils \cup MemberCircuits, 0, MaxMembers) :
            /\ obj' = CoilSet(cs)
            /\ call' = [op |-> "CoilSet", ok |-> TRUE]

NewBasis ==
    /\ call.op = "start"
    /\ \E resolution \in 1..MaxRes, level \in 0..MaxLevel :
            /\ obj' = HexaconeBasis(resolution, level)
            /\ call' = [op |-> "HexaconeBasis", ok |-> TRUE,
                        resolution |-> resolution, level |-> level]

Points == {pt \in SeqsUpTo(FilR, 1, MaxPts) \X SeqsUpTo(FilZ, 1, MaxPts) :
              Len(pt[1]) = Len(pt[2])}

CallPrediction ==
    /\ call.op \in Constructors /\ call.ok /\ obj.kind \in {"coil", "circuit"}
    /\ \E op \in PredictionOps, I \in Currents, pt \in Points :
            Do(op, [current |-> I, R |-> pt[1], z |-> pt[2]])

\* the currents vector may be shorter or longer than the member list
CallSetField ==
    /\ call.op \in Constructors /\ obj.kind = "set"
    /\ \E op \in FieldOps, pt \in Points,
          cur \in SeqsUpTo(1..MaxCur, 0, obj.n_coils + 1) :
            Do(op, [currents |-> cur, R |-> pt[1], z |-> pt[2]])

CallSetMatrix ==
    /\ call.op \in Constructors /\ obj.kind = "set"
    /\ \E op \in MatrixOps, pt \in Points :
            Do(op, [R |-> pt[1], z |-> pt[2]])

\* the basis is centred to the right of the axis, at (MaxRes + 1, z0)
CallBasisPrediction ==
    /\ call.op \in Constructors /\ obj.kind = "basis"
    /\ \E op \in PredictionOps, z0 \in FilZ, pt \in Points :
            Do(op, [R0 |-> MaxRes + 1, z0 |-> z0, R |-> pt[1], z |-> pt[2]])

\* the same query again, with the arguments the first call left behind
Repeat ==
    /\ call.op \in QueryOps /\ call.nth = 1
    /\ \E q \in {Query(obj, call.args, Eval(obj, call.op, call.args))} :
           /\ obj' = q.self
           /\ call' = [call EXCEPT !.args = q.args, !.ret = q.ret, !.nth = 2]

Next == NewCoil \/ NewCircuit \/ NewCoilSet \/ NewBasis \/ CallPrediction
           \/ CallSetField \/ CallSetMatrix \/ CallBasisPrediction \/ Repeat

Spec == Init /\ [][Next]_vars

(* ------------------------------------------------------------------ *)
(* Specification of the constructor: one construction from each input, *)
(* valid or not                                                        *)
(* ------------------------------------------------------------------ *)
CtorR == SeqsUpTo(0..MaxCtorR, 0, MaxCtorLen)
CtorZ == SeqsUpTo({0}, 0, MaxCtorLen)
CtorDims == {1, 2}

\* weight values k / den near 1 / 2 and 1: den = 4 gives coarse sums, den = 200000
\* gives sums within a few 1e-6 of 1
CtorWeights ==
    {None} \cup
    {Weights(nd, w, den) :
        nd \in CtorDims,
        w \in UNION {SeqsUpTo({den \div 2, (den \div 2) + 1, (den \div 2) + 2, den}, 0, MaxCtorLen)
                        : den \in {4, 200000}},
        den \in {4, 200000}}

CtorInit == obj = NoObj /\ call = [op |-> "start"]

Construct ==
    /\ call.op = "start"
    /\ \E Rf \in CtorR, zf \in CtorZ, nR \in CtorDims, nz \in CtorDims, w \in CtorWeights :
          \E made \in {PoloidalFieldCoil(Array(nR, Rf), Array(nz, zf), w)} :
              /\ obj' = made.obj
              /\ call' = [op |-> "PoloidalFieldCoil", ok |-> made.ok, err |-> made.err,
                          R_filaments |-> Array(nR, Rf), z_filaments |-> Array(nz, zf),
                          weights |-> w]

CtorNext == Construct

SpecCtor == CtorInit /\ [][CtorNext]_vars

(* ------------------------------------------------------------------ *)
(* Specification of the Green's function: the arguments are drawn from *)
(* the grid, then one of the three functions is applied to them        *)
(* ------------------------------------------------------------------ *)
GreenInit ==
    /\ obj = NoObj
    /\ \E R0 \in 1..MaxGR, z0 \in 0..MaxGZ, R \in 0..MaxGR, z \in 0..MaxGZ :
          call = [op |-> "args", R0 |-> R0, z0 |-> z0, R |-> R, z |-> z]

CallPsiFromJtor ==
    /\ call.op = "args"
    /\ call' = [op |-> "psi_from_Jtor",
                R0 |-> call.R0, z0 |-> call.z0, R |-> call.R, z |-> call.z,
                k2raw |-> k2_raw(call.R0, call.z0, call.R, call.z),
                k2 |-> k2_of(call.R0, call.z0, call.R, call.z),
                K |-> ellipk(k2_of(call.R0, call.z0, call.R, call.z)),
                ret |-> psi_from_Jtor(call.R0, call.z0, call.R, call.z)]
    /\ UNCHANGED obj

CallBrFromJtor ==
    /\ call.op = "args"
    /\ call' = [op |-> "Br_from_Jtor",
                R0 |-> call.R0, z0 |-> call.z0, R |-> call.R, z |-> call.z,
                ret |-> Br_from_Jtor(call.R0, call.z0, call.R, call.z, Eps)]
    /\ UNCHANGED obj

CallBzFromJtor ==
    /\ call.op = "args"
    /\ call' = [op |-> "Bz_from_Jtor",
                R0 |-> call.R0, z0 |-> call.z0, R |-> call.R, z |-> call.z,
                ret |-> Bz_from_Jtor(call.R0, call.z0, call.R, call.z, Eps)]
    /\ UNCHANGED obj

GreenNext == CallPsiFromJtor \/ CallBrFromJtor \/ CallBzFromJtor

SpecGreen == GreenInit /\ [][GreenNext]_vars

\* C6: psi_from_Jtor(R0, z0, R, z) = psi_from_Jtor(R, z, R0, z0) whenever R0 > 0
\* and R > 0: L and the clamped k2 are the same after exchanging source and target.
C6_Reciprocity ==
    (call.op = "psi_from_Jtor" /\ call.R0 > 0 /\ call.R > 0) =>
        /\ call.ret = psi_from_Jtor(call.R, call.z, call.R0, call.z0)
        /\ call.k2 = k2_of(call.R, call.z, call.R0, call.z0)
        /\ L_of(call.R0, call.z0, call.R, call.z) = L_of(call.R, call.z, call.R0, call.z0)

C6_Witness ==
    /\ call.op = "psi_from_Jtor"
    /\ call.R0 > 0 /\ call.R > call.R0 /\ call.z # call.z0
    /\ call.ret # Zero

\* C7: with R0 > 0 and R > 0 the k2 given to ellipk and ellipe lies in
\* [1e-10, 1 - 1e-10]; at a coincident point the unclamped ratio is 1 and is clamped
\* to 1 - 1e-10, so ellipk is not evaluated at its pole and psi is finite.
C7_ClampedModulus ==
    (call.op = "psi_from_Jtor" /\ call.R0 > 0 /\ call.R > 0) =>
        /\ call.k2.at \in {"lo", "hi"}
              \/ (IsFinite(call.k2.v) /\ ~LtClipLo(call.k2.v) /\ ~GtClipHi(call.k2.v))
        /\ IsFinite(call.K)
        /\ IsFinite(call.ret)
        /\ (call.R = call.R0 /\ call.z = call.z0) =>
              (call.k2raw = RatInt(1) /\ call.k2.at = "hi")

C7_Witness ==
    /\ call.op = "psi_from_Jtor"
    /\ call.R = call.R0 /\ call.z = call.z0 /\ call.R0 > 0
    /\ call.k2raw = RatInt(1) /\ call.k2.at = "hi" /\ IsFinite(call.ret)

\* C1: for a CoilSet and a currents vector with one entry per member,
\* CoilSet.psi(currents, R, z) at every query point p equals the sum over the members
\* i of M[p, i] * currents[i], where M = get_psi_matrix(R, z).
C1_MatrixConsistency ==
    (call.op = "psi" /\ Len(call.before.currents) = obj.n_coils) =>
        LET a == call.before
            M == get_psi_matrix(obj, a.R, a.z)
        IN  \A p \in DOMAIN a.R :
                At(call.ret, p) =
                    RatSum([i \in 1..obj.n_coils |->
                               RatMul(M[p][i], RatInt(a.currents[i]))])

C1_Witness ==
    /\ call.op = "psi" /\ obj.kind = "set" /\ obj.n_coils = 2
    /\ Len(call.before.currents) = 2
    /\ call.before.currents[1] # call.before.currents[2]
    /\ obj.coils[1].kind = "circuit" /\ obj.coils[2].kind = "coil"
    /\ At(call.ret, 1) # Zero

\* C2: CoilSet.psi, CoilSet.Br and CoilSet.Bz called with a currents vector that is
\* shorter or longer than the member list end in an error, and return no field.
C2_LengthMismatchRaises ==
    (call.op \in FieldOps /\ Len(call.before.currents) # obj.n_coils) => call.raised

\* C3 (as amended): constructing a PoloidalFieldCoil fails exactly when some radius
\* is not > 0, the two arrays differ in size, one of them is not one-dimensional, the
\* explicit weights do not sum to 1 within isclose's tolerance, are not
\* one-dimensional or differ in size from the filaments, or there are no filaments
\* and no weights; a coil is produced for every other input.
C3_Violates(a) ==
    \/ \E i \in DOMAIN a.R_filaments.data : a.R_filaments.data[i] <= 0
    \/ Len(a.R_filaments.data) # Len(a.z_filaments.data)
    \/ a.R_filaments.ndim # 1 \/ a.z_filaments.ndim # 1
    \/ /\ ~a.weights.none
       /\ \/ a.weights.ndim # 1
          \/ Len(a.weights.data) # Len(a.R_filaments.data)

C3_ConstructorOutcome ==
    (call.op = "PoloidalFieldCoil") =>
        (~call.ok <=>
            \/ C3_Violates(call)
            \/ ~call.weights.none
                  /\ ~isclose_to_one(SumSeq(call.weights.data), call.weights.den)
            \/ call.weights.none /\ Len(call.R_filaments.data) = 0)
        /\ (call.ok <=> obj.kind = "coil")

C3_Witness ==
    /\ call.op = "PoloidalFieldCoil" /\ ~call.ok
    /\ Len(call.R_filaments.data) = 2 /\ call.R_filaments.data[2] = 0
    /\ call.R_filaments.data[1] > 0
    /\ Len(call.z_filaments.data) = 2
    /\ call.R_filaments.ndim = 1 /\ call.z_filaments.ndim = 1
    /\ call.weights.none

\* C3 (as stated): construction fails exactly when a radius is <= 0, the sizes
\* differ, an array is not one-dimensional, or the explicit weights do not sum to 1,
\* are not one-dimensional or have the wrong size.
C3_Original ==
    (call.op = "PoloidalFieldCoil") =>
        (~call.ok <=>
            \/ C3_Violates(call)
            \/ ~call.weights.none /\ SumSeq(call.weights.data) # call.weights.den)

\* C4: PoloidalFieldCoil.psi_prediction(I, R, z) at each query point is the sum over
\* all N filaments i of weight_i * psi_from_Jtor(R_fil[i], z_fil[i], R, z) * I, with
\* weight_i the explicit weight if weights were given and 1 / N otherwise.
C4_Superposition ==
    (call.op = "psi_prediction" /\ obj.kind = "coil") =>
        LET a == call.before
            N == Len(obj.R_fil)
            w(i) == IF obj.weights.scalar THEN Rat(1, N)
                    ELSE Rat(obj.weights.num[i], obj.weights.den)
        IN  /\ N = obj.n_filaments
            /\ \A p \in DOMAIN a.R :
                 At(call.ret, p) =
                    RatSum([i \in 1..N |->
                        RatMul(RatMul(w(i), psi_from_Jtor(obj.R_fil[i], obj.z_fil[i],
                                                          a.R[p], a.z[p])),
                               RatInt(a.current))])

C4_Witness ==
    /\ call.op = "psi_prediction" /\ obj.kind = "coil"
    /\ obj.n_filaments = 2 /\ ~obj.weights.scalar
    /\ obj.weights.num[1] # obj.weights.num[2]
    /\ obj.R_fil[1] # obj.R_fil[2]
    /\ call.before.current > 1
    /\ At(call.ret, 1) # Zero

\* C5: CoilCircuit.psi_prediction(I, R, z) for coils c_1..c_n and multipliers
\* m_1..m_n is the sum over every member i of m_i * c_i.psi_prediction(I, R, z), and
\* the evaluation leaves the circuit and its member coils as they were.
C5_CircuitSum ==
    [][(call'.op = "psi_prediction" /\ obj.kind = "circuit"
            /\ Len(obj.coils) = Len(obj.multipliers)) =>
          LET a == call'.before
          IN  /\ obj' = obj
              /\ \A p \in DOMAIN a.R :
                   At(call'.ret, p) =
                      RatSum([i \in 1..Len(obj.coils) |->
                          RatMul(RatInt(obj.multipliers[i]),
                                 At(Coil_psi_prediction(obj.coils[i], a.current, a.R, a.z),
                                    p))])]_vars

C5_Witness ==
    /\ call.op = "psi_prediction" /\ obj.kind = "circuit"
    /\ Len(obj.coils) = 2 /\ Len(obj.multipliers) = 2
    /\ obj.coils[1] = obj.coils[2]
    /\ obj.multipliers[1] # obj.multipliers[2]
    /\ call.before.current > 1
    /\ At(call.ret, 1) # Zero

\* C8: for a coil or a circuit, Br_prediction(I, R, z) is
\* -(psi_prediction(I, R, z + eps) - psi_prediction(I, R, z - eps)) / (2 * eps * R) and
\* Bz_prediction(I, R, z) is
\* (psi_prediction(I, R + eps, z) - psi_prediction(I, R - eps, z)) / (2 * eps * R),
\* with eps = 1e-4 and psi_prediction the object's own.
C8_CentralDifferences ==
    (call.op \in {"Br_prediction", "Bz_prediction"} /\ obj.kind \in {"coil", "circuit"}) =>
        LET a == call.before
            psi(R, z) == psi_prediction(obj, a.current, R, z)
        IN  \A p \in DOMAIN a.R :
              At(call.ret, p) =
                IF call.op = "Br_prediction"
                THEN RatDiv(RatNeg(RatSub(At(psi(a.R, Shift(a.z, Eps)), p),
                                          At(psi(a.R, Shift(a.z, -Eps)), p))),
                            RatInt(2 * Eps * a.R[p]))
                ELSE RatDiv(RatSub(At(psi(Shift(a.R, Eps), a.z), p),
                                   At(psi(Shift(a.R, -Eps), a.z), p)),
                            RatInt(2 * Eps * a.R[p]))

C8_Witness ==
    /\ call.op = "Br_prediction" /\ obj.kind = "circuit"
    /\ Len(obj.coils) = 2 /\ Len(obj.multipliers) = 2
    /\ IsFinite(At(call.ret, 1)) /\ At(call.ret, 1) # Zero

====
